---- MODULE Spec2Model ----
(***************************************************************************)
(* Photo organizer: the fingerprint store (fingerprint.py), the metadata   *)
(* resolver (metadata_parser.py), the destination planner and transfer     *)
(* executor (file_mover.py) and the organize pipeline (__main__.py) as a   *)
(* state machine.                                                          *)
(*                                                                         *)
(* Spec    the pipeline: run_organization and main, one action per step    *)
(* SpecFP  the FingerprintManager operations called in any order, with the *)
(*         environment deleting files in between                           *)
(* SpecFM  FileMover.copy_file called in any order                         *)
(* SpecPL  extract_metadata, then determine_destination computed twice     *)
(* SpecRR  run_organization as a dry run, then as a real run               *)
(* SpecCF  main: the configuration stage, then the pipeline                *)
(* SpecFN  the functions over text: sanitizing a name, reading a date from *)
(*         a file name, reading a date from the external tool's fields     *)
(***************************************************************************)
EXTENDS Integers, FiniteSets, Sequences, TLC

\* ---------------------------------------------------------------- bounds
NumDigests == 2      \* distinct file contents (content hashes 1..NumDigests)
NumBases == 2        \* distinct planned destinations (directory + file name)
MaxCounter == 1      \* timestamp-suffix counters tried per destination
NumUuid == 1         \* distinct random tokens a uuid suffix can take
MaxFiles == 2        \* files the scan yields in one run
MaxOps == 3          \* fingerprint store operations called in a row
MaxCopies == 2       \* copy_file calls in a row

\* ------------------------------------------------------- program constants
MAX_RETRY_ATTEMPTS == 3

\* ----------------------------------------------------------------- values
Digests == 1..NumDigests
\* calculate_hash returns None on an I/O failure
NoHash == 0
Bases == 1..NumBases
\* content of a path that does not exist
NoFile == 0

\* Paths are <<base, kind, n>>. The output tree holds, per planned
\* destination, the plain path, its timestamp-suffixed variants and its
\* uuid-suffixed variants.
Plain(b) == <<b, "plain", 0>>
Ts(b, n) == <<b, "ts", n>>
Uuid(b, u) == <<b, "uuid", u>>
OutPaths ==
  {Plain(b) : b \in Bases}
    \cup {Ts(b, n) : b \in Bases, n \in 1..MaxCounter}
    \cup {Uuid(b, u) : b \in Bases, u \in 1..NumUuid}
\* a path recorded in an older store that lies outside the output tree and
\* has been deleted since
GonePath == <<0, "gone", 0>>
\* an entry of the store file that has no 'path' field
NoPath == <<0, "nopath", 0>>
\* an entry of the store file whose 'path' field is null
NullPath == <<0, "null", 0>>
\* no entry for this digest in the in-memory dict
NoEntry == <<0, "noentry", 0>>
\* the directory a destination lies in (output/YYYY/MM, output/unknown/..)
ParentDir(p) == p[1]

\* Path(p).exists() for a path string p
Exists(dsk, p) == p \in OutPaths /\ dsk[p] # NoFile

\* the empty in-memory dict
EmptyStore == [d \in Digests |-> NoEntry]
StoreKeys(fp) == {d \in Digests : fp[d] # NoEntry}

\* ------------------------------------------------------ fingerprint store
\* an entry for the hash is enough, its path is not looked at
IsDuplicateResult_AnyEntry(fp, h, dsk) ==
  h # NoHash /\ fp[h] # NoEntry

\* is_duplicate: the value returned
IsDuplicateResult(fp, h, dsk) ==
  IF h = NoHash THEN FALSE
  ELSE IF fp[h] # NoEntry
       THEN fp[h] \notin {NoPath, NullPath} /\ Exists(dsk, fp[h])
       ELSE FALSE

\* is_duplicate: the in-memory dict it leaves
IsDuplicateStore(fp, h, dsk) ==
  IF h = NoHash THEN fp
  ELSE IF fp[h] # NoEntry
       THEN IF fp[h] \notin {NoPath, NullPath} /\ Exists(dsk, fp[h])
            THEN fp
            ELSE [fp EXCEPT ![h] = NoEntry]
       ELSE fp

\* an entry that is already there is kept: first write wins
RecordFingerprint_KeepFirst(fp, h, p) ==
  IF h = NoHash \/ fp[h] # NoEntry THEN fp ELSE [fp EXCEPT ![h] = p]

\* record_fingerprint: the in-memory dict it leaves (the entry is modelled by
\* its 'path'; timestamp, size, algorithm and metadata are never read back)
RecordFingerprint(fp, h, p) ==
  IF h = NoHash THEN fp ELSE [fp EXCEPT ![h] = p]

\* Path(entry.get('path', '')).exists() as _cleanup_stale_fingerprints
\* evaluates it: a missing field gives Path(''), the current directory
CleanupPathExists(dsk, p) ==
  IF p = NoPath THEN TRUE ELSE Exists(dsk, p)

\* _cleanup_stale_fingerprints
CleanupStale(fp, dsk) ==
  [d \in Digests |->
     IF fp[d] # NoEntry /\ ~CleanupPathExists(dsk, fp[d]) THEN NoEntry ELSE fp[d]]

\* A store file (or its .bak) on disk: absent, not JSON ("corrupt"), a torn
\* write ("partial", not JSON either), a JSON document without the
\* 'fingerprints' key ("nokey"), or a document with the map ("doc").
AbsentFile == [kind |-> "absent", fps |-> EmptyStore]
CorruptFile == [kind |-> "corrupt", fps |-> EmptyStore]
PartialFile == [kind |-> "partial", fps |-> EmptyStore]
NoKeyFile == [kind |-> "nokey", fps |-> EmptyStore]
DocFile(fp) == [kind |-> "doc", fps |-> fp]

\* load_existing_fingerprints: the in-memory dict it leaves. Path(None) for
\* a null 'path' raises inside the cleanup, and the handler empties the dict.
LoadFingerprints(fp, file, dsk) ==
  CASE file.kind = "absent" -> fp
    [] file.kind \in {"corrupt", "partial"} -> EmptyStore
    [] file.kind = "nokey" -> EmptyStore
    [] OTHER ->
         IF \E d \in Digests : file.fps[d] = NullPath
         THEN EmptyStore
         ELSE CleanupStale(file.fps, dsk)

\* save_fingerprints: the store file and the backup it leaves.
\*   renameFails   the rename of the store file to .bak raises
\*   write         "ok", "open_fail" (open raises, nothing written) or
\*                 "partial" (json.dump raises after writing some bytes)
\*   restoreFails  the rename of .bak back raises
SaveBackedUp(file, backup, renameFails) ==
  IF file.kind # "absent" /\ ~renameFails
  THEN [file |-> AbsentFile, backup |-> file]
  ELSE [file |-> file, backup |-> backup]

SaveRestore(file, backup, restoreFails) ==
  IF backup.kind # "absent" /\ ~restoreFails
  THEN [file |-> backup, backup |-> AbsentFile]
  ELSE [file |-> file, backup |-> backup]

SaveFingerprints(fp, file, backup, renameFails, write, restoreFails) ==
  IF file.kind # "absent" /\ renameFails
  THEN SaveRestore(file, backup, restoreFails)
  ELSE LET b == SaveBackedUp(file, backup, renameFails) IN
       CASE write = "ok" -> [file |-> DocFile(fp), backup |-> b.backup]
         [] write = "open_fail" -> SaveRestore(b.file, b.backup, restoreFails)
         [] OTHER -> SaveRestore(PartialFile, b.backup, restoreFails)

WriteOutcomes == {"ok", "open_fail", "partial"}


\* -------------------------------------------------------- transfer executor
Policies == {"timestamp_suffix", "uuid_suffix", "overwrite"}

\* The second of the day the clock shows when a conflict is resolved: the
\* one in which the files already in the output tree were named, or a later
\* one.
Clock == {0, 1}
\* <stem>_<HHMMSS>_<NNN><suffix> for the second now and the counter n
TsAt(b, now, n) == IF now = 0 THEN Ts(b, n) ELSE <<b, "ts_later", n>>

\* the smallest counter in from..MaxCounter whose timestamp-suffixed path is
\* free, or 0 when every one is taken (MaxCounter stands for the 999 of line
\* 232)
RECURSIVE FirstFreeCounterAt(_, _, _, _)
FirstFreeCounterAt(dsk, b, now, from) ==
  IF from > MaxCounter THEN 0
  ELSE IF ~Exists(dsk, TsAt(b, now, from)) THEN from
  ELSE FirstFreeCounterAt(dsk, b, now, from + 1)

FirstFreeCounter(dsk, b, from) == FirstFreeCounterAt(dsk, b, 0, from)

\* _resolve_filename_conflict for the planned path Plain(b); u is the token
\* uuid4 draws, now the second datetime.now() shows
ResolveConflictAt(dsk, b, policy, u, now) ==
  IF ~Exists(dsk, Plain(b)) THEN Plain(b)
  ELSE CASE policy = "timestamp_suffix" ->
              LET n == FirstFreeCounterAt(dsk, b, now, 1) IN
              IF n # 0 THEN TsAt(b, now, n) ELSE Uuid(b, u)
         [] policy = "uuid_suffix" -> Uuid(b, u)
         [] OTHER -> Plain(b)

\* ... within the second in which the run started
ResolveConflict(dsk, b, policy, u) == ResolveConflictAt(dsk, b, policy, u, 0)

\* a missing source is taken for a transient error and tried again
RECURSIVE CopyAttempts_RetryWhenGone(_, _, _)
CopyAttempts_RetryWhenGone(a, goneAt, ioFails) ==
  IF a > MAX_RETRY_ATTEMPTS THEN [ok |-> FALSE, attempts |-> a - 1, copies |-> a - 1]
  ELSE IF (goneAt # 0 /\ a >= goneAt) \/ a <= ioFails
  THEN CopyAttempts_RetryWhenGone(a + 1, goneAt, ioFails)
  ELSE [ok |-> TRUE, attempts |-> a, copies |-> a]

\* The retry loop of copy_file, from attempt a on. The source is missing from
\* the start of attempt goneAt on (0: never); the first ioFails attempts
\* raise OSError or PermissionError in copy2 or in the check that follows.
RECURSIVE CopyAttempts(_, _, _)
CopyAttempts(a, goneAt, ioFails) ==
  IF a > MAX_RETRY_ATTEMPTS THEN [ok |-> FALSE, attempts |-> a - 1, copies |-> a - 1]
  ELSE IF goneAt # 0 /\ a >= goneAt THEN [ok |-> FALSE, attempts |-> a, copies |-> a - 1]
  ELSE IF a <= ioFails THEN CopyAttempts(a + 1, goneAt, ioFails)
  ELSE [ok |-> TRUE, attempts |-> a, copies |-> a]

\* what copy_file returns and leaves behind
CopyResult(ok, dsk, drs, copied, attempts) ==
  [ok |-> ok, disk |-> dsk, dirs |-> drs, copied |-> copied, attempts |-> attempts]

\* the dry-run branch of copy_file (lines 273-280): the source's existence is
\* read for the size in the log line only
DryRunCopy(src, copied, dsk, drs, srcExists) ==
  CopyResult(TRUE, dsk, drs, copied \cup {src}, 0)

\* the real branch of copy_file (lines 282-311) for a source of content h
RealCopy(src, dest, h, copied, dsk, drs, goneAt, ioFails) ==
  LET r == CopyAttempts(1, goneAt, ioFails) IN
  IF r.ok
  THEN CopyResult(TRUE, [dsk EXCEPT ![dest] = h], drs, copied \cup {src}, r.attempts)
  ELSE CopyResult(FALSE, dsk, drs, copied, r.attempts)

\* the dry-run flag is not consulted: every call copies
CopyFile_IgnoreDryRun(src, dest, h, dry, copied, dsk, drs, mkdirFails, goneAt, ioFails) ==
  IF src \in copied \/ mkdirFails
  THEN CopyResult(FALSE, dsk, drs, copied, 0)
  ELSE RealCopy(src, dest, h, copied, dsk, drs \cup {ParentDir(dest)}, goneAt, ioFails)

\* the processed set is not consulted: a source can be copied twice
CopyFile_NoProcessedGuard(src, dest, h, dry, copied, dsk, drs, mkdirFails, goneAt, ioFails) ==
  IF mkdirFails THEN CopyResult(FALSE, dsk, drs, copied, 0)
  ELSE IF dry
  THEN DryRunCopy(src, copied, dsk, drs \cup {ParentDir(dest)}, goneAt # 1)
  ELSE RealCopy(src, dest, h, copied, dsk, drs \cup {ParentDir(dest)}, goneAt, ioFails)

\* copy_file(src, dest) (lines 264-315) for a source of content h
\*   mkdirFails  creating the destination's parent raises (the outer handler
\*               returns False)
CopyFile(src, dest, h, dry, copied, dsk, drs, mkdirFails, goneAt, ioFails) ==
  IF src \in copied THEN CopyResult(FALSE, dsk, drs, copied, 0)
  ELSE IF mkdirFails THEN CopyResult(FALSE, dsk, drs, copied, 0)
  ELSE IF dry
  THEN DryRunCopy(src, copied, dsk, drs \cup {ParentDir(dest)}, goneAt # 1)
  ELSE RealCopy(src, dest, h, copied, dsk, drs \cup {ParentDir(dest)}, goneAt, ioFails)

\* ------------------------------------------------------- metadata resolver
UnknownStrategies == {"route_to_unknown", "use_ctime"}

\* A datetime, and the value None in its place
Date(y, mo, d, h, mi, s, us) ==
  [year |-> y, month |-> mo, day |-> d, hour |-> h, minute |-> mi, second |-> s,
   microsecond |-> us]
NoDate == Date(0, 0, 0, 0, 0, 0, 0)

\* dates the external tool can report: the date of the specification's
\* example, a date with sub-second digits equal to its time digits, and a
\* date before the year 1000 (strptime accepts 0001..9999)
ExifDates ==
  {Date(2024, 7, 16, 18, 22, 7, 0), Date(2024, 12, 1, 12, 34, 56, 123456),
   Date(999, 1, 5, 18, 22, 7, 7000)}
\* a date parsed from a file name: 1900..3000, no time in the name
FilenameDates == {Date(2024, 12, 1, 0, 0, 0, 0)}
\* st_ctime of a source file
CtimeDates == {Date(2023, 3, 4, 5, 6, 7, 0)}

\* extract_metadata (lines 89-135). fault: "none"; "stat" (file_path.stat()
\* raises, line 105); "mtime" (fromtimestamp(st_mtime) raises, line 108, after
\* file_ctime was stored). exif, fname: the date the external tool / the file
\* name patterns yield, or NoDate; ctime: the file's st_ctime.
ExtractMetadata(fault, exif, fname, ctime, strategy) ==
  CASE fault = "stat" ->
         [creation_date |-> NoDate, extraction_method |-> "None",
          file_ctime |-> NoDate, error |-> TRUE]
    [] fault = "mtime" ->
         [creation_date |-> NoDate, extraction_method |-> "None",
          file_ctime |-> ctime, error |-> TRUE]
    [] OTHER ->
         IF exif # NoDate
         THEN [creation_date |-> exif, extraction_method |-> "exif",
               file_ctime |-> ctime, error |-> FALSE]
         ELSE IF fname # NoDate
         THEN [creation_date |-> fname, extraction_method |-> "filename",
               file_ctime |-> ctime, error |-> FALSE]
         ELSE IF strategy = "use_ctime"
         THEN [creation_date |-> ctime, extraction_method |-> "file_ctime",
               file_ctime |-> ctime, error |-> FALSE]
         ELSE [creation_date |-> NoDate, extraction_method |-> "unknown",
               file_ctime |-> ctime, error |-> FALSE]

\* ----------------------------------------------------- destination planner
\* Text is a sequence of one-character strings.
DigitChars == <<"0", "1", "2", "3", "4", "5", "6", "7", "8", "9">>

\* n as decimal digits, zero-padded to width w (the low w digits)
RECURSIVE Pad(_, _)
Pad(n, w) ==
  IF w = 0 THEN <<>> ELSE Pad(n \div 10, w - 1) \o <<DigitChars[(n % 10) + 1]>>

\* n as decimal digits without padding
RECURSIVE Decimal(_)
Decimal(n) ==
  IF n < 10 THEN <<DigitChars[n + 1]>>
  ELSE Decimal(n \div 10) \o <<DigitChars[(n % 10) + 1]>>

\* strftime("%Y"): the C library pads the year to four digits, or does not
StrfYear(y, padYear) == IF padYear THEN Pad(y, 4) ELSE Decimal(y)

\* A date_format template is a sequence of directives ("%Y", ...) and
\* literal characters.
Directives == {"%Y", "%m", "%d", "%H", "%M", "%S", "%f"}
\* the template of the specification's example, a compact one, and the
\* default one
FormatExample ==
  <<"%Y", "-", "%m", "-", "%d", "_", "%H", "-", "%M", "-", "%S">>
FormatCompact == <<"%H", "%M", "%S", "_", "%f">>
FormatDefault ==
  <<"%Y", "-", "%m", "-", "%d", " ", "a", "t", " ", "%H", "-", "%M", "-", "%S",
    " ", "(", "%f", ")">>
DateFormats == {FormatExample, FormatCompact, FormatDefault}

\* what strftime renders for one element of the template
StrfField(tok, d, padYear) ==
  CASE tok = "%Y" -> StrfYear(d.year, padYear)
    [] tok = "%m" -> Pad(d.month, 2)
    [] tok = "%d" -> Pad(d.day, 2)
    [] tok = "%H" -> Pad(d.hour, 2)
    [] tok = "%M" -> Pad(d.minute, 2)
    [] tok = "%S" -> Pad(d.second, 2)
    [] tok = "%f" -> Pad(d.microsecond, 6)
    [] OTHER -> <<tok>>

\* creation_date.strftime(self.date_format)
RECURSIVE Strftime(_, _, _)
Strftime(fmt, d, padYear) ==
  IF fmt = <<>> THEN <<>>
  ELSE StrfField(Head(fmt), d, padYear) \o Strftime(Tail(fmt), d, padYear)

\* '%f' in self.date_format
HasSubSecond(fmt) == \E i \in 1..Len(fmt) : fmt[i] = "%f"

\* str.replace(old, new): every non-overlapping occurrence, left to right
RECURSIVE Replace(_, _, _)
Replace(s, old, new) ==
  IF Len(s) < Len(old) THEN s
  ELSE IF SubSeq(s, 1, Len(old)) = old
  THEN new \o Replace(SubSeq(s, Len(old) + 1, Len(s)), old, new)
  ELSE <<Head(s)>> \o Replace(Tail(s), old, new)

\* _sanitize_filename (lines 184-200)
UnsafeChars == {"<", ">", ":", "\"", "/", "\\", "|", "?", "*"}
RECURSIVE StripLeft(_)
StripLeft(s) ==
  IF s # <<>> /\ Head(s) \in {".", " "} THEN StripLeft(Tail(s)) ELSE s
RECURSIVE StripRight(_)
StripRight(s) ==
  IF s # <<>> /\ s[Len(s)] \in {".", " "}
  THEN StripRight(SubSeq(s, 1, Len(s) - 1)) ELSE s
UnnamedFile == <<"u", "n", "n", "a", "m", "e", "d", "_", "f", "i", "l", "e">>
SanitizeFilename(name) ==
  LET safe == [i \in 1..Len(name) |-> IF name[i] \in UnsafeChars THEN "_" ELSE name[i]]
      stripped == StripRight(StripLeft(safe))
      named == IF stripped = <<>> THEN UnnamedFile ELSE stripped
  IN  IF Len(named) > 200 THEN SubSeq(named, 1, 200) ELSE named

\* A source file under the input root: the directories between the root and
\* the file, its stem, its suffix, and the first three hex digits of the md5
\* of its path, in upper case.
SourceFile(parent, stem, token) ==
  [parent |-> parent, stem |-> stem, suffix |-> <<".", "j", "p", "g">>,
   token |-> token]
SubDir == <<"s", "u", "b">>
SourceFiles ==
  {SourceFile(<<>>, <<"a">>, <<"A", "1", "B">>),
   SourceFile(<<SubDir>>, <<"a">>, <<"0", "7", "F">>)}

\* _generate_filename (lines 144-170): the name without the suffix
GenerateStem(file, date, fmt, padYear) ==
  LET rendered == Strftime(fmt, date, padYear)
      base_name ==
        IF date = NoDate THEN file.stem
        ELSE IF HasSubSecond(fmt) /\ date.microsecond = 0
        THEN Replace(rendered, Pad(0, 6), file.token)
        ELSE IF HasSubSecond(fmt)
        THEN Replace(rendered, Pad(date.microsecond, 6),
                     Pad(date.microsecond \div 1000, 3))
        ELSE rendered
  IN  SanitizeFilename(base_name)

\* _generate_filename (lines 144-172)
GenerateFilename(file, date, fmt, padYear) ==
  GenerateStem(file, date, fmt, padYear) \o file.suffix

\* the folder of the files without a date
UnknownDir == <<"u", "n", "k", "n", "o", "w", "n">>
\* determine_destination, lines 95-121: the directory under the output root,
\* as the sequence of its components
DestinationDir(file, md, strategy, padYear) ==
  IF md.creation_date # NoDate
  THEN <<StrfYear(md.creation_date.year, padYear), Pad(md.creation_date.month, 2)>>
  ELSE IF strategy = "use_ctime"
  THEN IF md.file_ctime # NoDate
       THEN <<StrfYear(md.file_ctime.year, padYear), Pad(md.file_ctime.month, 2)>>
       ELSE <<UnknownDir>>
  ELSE <<UnknownDir>> \o file.parent

\* datetime.now().strftime("%H%M%S") for the second of the day now
ClockText(now) ==
  Pad(now \div 3600, 2) \o Pad((now \div 60) % 60, 2) \o Pad(now % 60, 2)

\* uuid.uuid4().hex[:8] for the token u
UuidText(u) == Pad(u, 8)

\* the stem _resolve_filename_conflict gives the resolved path p
ResolvedStem(stem, p, now) ==
  CASE p[2] \in {"ts", "ts_later"} ->
         stem \o <<"_">> \o ClockText(now) \o <<"_">> \o Pad(p[3], 3)
    [] p[2] = "uuid" -> stem \o <<"_">> \o UuidText(p[3])
    [] OTHER -> stem

\* determine_destination (lines 95-130) for a file whose planned path stands
\* at Plain(b) in the output tree; now is the clock's second, u the token
\* uuid4 draws
DetermineDestination(file, md, b, strategy, fmt, policy, dsk, u, now, padYear) ==
  LET path == ResolveConflictAt(dsk, b, policy, u, now) IN
  [dir |-> DestinationDir(file, md, strategy, padYear),
   planned |-> GenerateFilename(file, md.creation_date, fmt, padYear),
   name |-> ResolvedStem(GenerateStem(file, md.creation_date, fmt, padYear), path, now)
              \o file.suffix,
   path |-> path]

\* ------------------------------------------------------------------ state
VARIABLES
  pc,                   \* where run_organization / main stands
  dry_run,              \* config['dry_run']
  conflict_resolution,  \* config['filename_conflict_resolution']
  unknown_strategy,     \* config['unknown_strategy']
  date_format,          \* config['date_format']
  fingerprints,         \* FingerprintManager.fingerprints
  copied_files,         \* FileMover.copied_files
  summary,              \* the summary dict of run_organization
  idx,                  \* files the scan has yielded so far
  disk,                 \* the output tree: path -> content (NoFile: absent)
  dirs,                 \* directories that exist under the output root
  storeFile,            \* fingerprints_<algorithm>.json
  backupFile,           \* fingerprints_<algorithm>.json.bak
  returned,             \* what run_organization returned to main
  hist,                 \* history: the filesystem at start, what has run
  last                  \* history: the last operation, its inputs and result

vars ==
  <<pc, dry_run, conflict_resolution, unknown_strategy, date_format, fingerprints, copied_files, summary, idx,
    disk, dirs, storeFile, backupFile, returned, hist, last>>

ZeroSummary ==
  [copied |-> 0, skipped |-> 0, duplicates |-> 0, errors |-> 0, unknown |-> 0]

\* a copied file is counted under skipped as well
Bump_CopiedAlsoSkipped(s, bucket) ==
  CASE bucket = "copied" -> [s EXCEPT !.copied = @ + 1, !.skipped = @ + 1]
    [] bucket = "skipped" -> [s EXCEPT !.skipped = @ + 1]
    [] bucket = "duplicates" -> [s EXCEPT !.duplicates = @ + 1]
    [] bucket = "errors" -> [s EXCEPT !.errors = @ + 1]
    [] OTHER -> s

Bump(s, bucket) ==
  CASE bucket = "copied" -> [s EXCEPT !.copied = @ + 1]
    [] bucket = "skipped" -> [s EXCEPT !.skipped = @ + 1]
    [] bucket = "duplicates" -> [s EXCEPT !.duplicates = @ + 1]
    [] bucket = "errors" -> [s EXCEPT !.errors = @ + 1]
    [] OTHER -> s

\* Output trees a run can start from: empty, or holding one file of content
\* 1 at the first planned destination, left by an earlier run.
InitialDisks ==
  {[p \in OutPaths |-> IF p \in S THEN 1 ELSE NoFile] : S \in {{}, {Plain(1)}}}

DirsOf(dsk) == {ParentDir(p) : p \in {q \in OutPaths : dsk[q] # NoFile}}

\* Store files a run can start from: none, an unparsable one, or a document
\* whose map holds one entry, for content 1: without a path, or with the
\* path of the first planned destination (live or stale, as the tree has it).
InitialEntries == {NoPath, Plain(1)}
InitialStoreFiles ==
  {AbsentFile, CorruptFile}
    \cup {DocFile([EmptyStore EXCEPT ![1] = e]) : e \in InitialEntries}
InitialBackups == {AbsentFile}

NoOp == [op |-> "none"]

InitHist(dsk, file, backup) ==
  [disk0 |-> dsk, dirs0 |-> DirsOf(dsk), store0 |-> file, backup0 |-> backup,
   loaded |-> FALSE, loadedLive |-> {}, saved |-> FALSE, allValid |-> TRUE,
   copiedHashes |-> {}, ops |-> 0, succeeded |-> {}, undated |-> 0]

\* the state after the components are constructed (lines 117-125)
Init ==
  /\ pc = "start"
  /\ dry_run \in BOOLEAN
  /\ conflict_resolution \in Policies
  /\ unknown_strategy \in UnknownStrategies
  /\ date_format = FormatDefault
  /\ fingerprints = EmptyStore
  /\ copied_files = {}
  /\ summary = ZeroSummary
  /\ idx = 0
  /\ disk \in InitialDisks
  /\ dirs = DirsOf(disk)
  /\ storeFile \in InitialStoreFiles
  /\ backupFile \in InitialBackups
  /\ returned = [set |-> FALSE, value |-> ZeroSummary]
  /\ hist = InitHist(disk, storeFile, backupFile)
  /\ last = NoOp

\* ---------------------------------------------------------------- pipeline
\* What can go wrong with one file, besides the copy itself:
\*   "meta"    extract_metadata fails inside (it catches, no date resolved)
\*   "hash"    calculate_hash fails (it catches and returns None)
\*   "plan"    determine_destination raises
\*   "mkdir"   creating the destination's parent raises inside copy_file
\*   "record"  record_fingerprint raises in the stat of the destination
Faults == {"none", "meta", "hash", "plan", "mkdir", "record"}

\* What happens to one file: a fault, the attempt from whose start the source
\* is missing (0: never), and the number of leading copy attempts that raise.
\* Of the combinations of goneAt and ioFails, one per distinct course of the
\* retry loop is kept; a source missing from the start also fails its hash.
Scenario(f, g, i) == [fault |-> f, goneAt |-> g, ioFails |-> i]
Scenarios ==
  {Scenario(f, 0, 0) : f \in Faults}
    \cup {Scenario("none", 0, i) : i \in 1..MAX_RETRY_ATTEMPTS}
    \cup {Scenario("none", g, g - 1) : g \in 1..MAX_RETRY_ATTEMPTS}
    \cup {Scenario("hash", 1, 0)}

\* What the external tool finds in one file of a run: a date, or none (the
\* scanned names carry no date).
PipelineExif == {Date(2024, 7, 16, 18, 22, 7, 0), NoDate}
PipelineCtime == Date(2023, 3, 4, 5, 6, 7, 0)

\* a valid file: readable, plannable, and copied within the retries
FileValid(sc) ==
  sc.fault = "none" /\ sc.goneAt = 0 /\ sc.ioFails < MAX_RETRY_ATTEMPTS

\* the handler re-raises: the exception leaves the loop
HandleFileError_Reraise == [pc |-> "failed", bucket |-> "none"]

\* the handler of the per-file try (lines 203-212): where the run goes on and
\* the counter the file is counted under
HandleFileError == [pc |-> "loop", bucket |-> "errors"]

\* the fingerprint is recorded whatever copy_file returned
RecordIfCopied_Always(ok, fp, h, dest) == RecordFingerprint(fp, h, dest)

\* lines 182-183: record_fingerprint runs in the branch copy_file's success
\* opens
RecordIfCopied(ok, fp, h, dest) ==
  IF ok THEN RecordFingerprint(fp, h, dest) ELSE fp

\* The body of the per-file try (lines 150-201) for the file src of content h
\* whose planned destination is Plain(b).
ProcessOne(src, h, b, u, fault, goneAt, ioFails, fp, copied, dsk, drs, dry, policy) ==
  LET file_hash == IF fault = "hash" THEN NoHash ELSE h
      dup == IsDuplicateResult(fp, file_hash, dsk)
      fp1 == IsDuplicateStore(fp, file_hash, dsk)
      dest == ResolveConflict(dsk, b, policy, u)
      c == CopyFile(src, dest, h, dry, copied, dsk, drs, fault = "mkdir", goneAt, ioFails)
      never == [hash |-> file_hash, dup |-> dup, fp |-> fp1, copied |-> copied,
                disk |-> dsk, dirs |-> drs, copyCalled |-> FALSE, copyOk |-> FALSE,
                dest |-> NoEntry, attempts |-> 0, raised |-> FALSE,
                bucket |-> "duplicates"]
      called == [never EXCEPT !.copied = c.copied, !.disk = c.disk, !.dirs = c.dirs,
                              !.copyCalled = TRUE, !.copyOk = c.ok, !.dest = dest,
                              !.attempts = c.attempts]
      recordRaises == c.ok /\ fault = "record" /\ Exists(c.disk, dest)
      recorded == [called EXCEPT
                     !.fp = RecordIfCopied(c.ok /\ ~recordRaises, fp1, file_hash, dest)]
  IN  IF dup THEN never
      ELSE IF fault = "plan" THEN [never EXCEPT !.raised = TRUE, !.bucket = "errors"]
      ELSE IF recordRaises THEN [recorded EXCEPT !.raised = TRUE, !.bucket = "errors"]
      ELSE IF c.ok THEN [recorded EXCEPT !.bucket = "copied"]
      ELSE [recorded EXCEPT !.bucket = "skipped"]

\* load_existing_fingerprints (line 129)
Load ==
  /\ pc = "start"
  /\ fingerprints' = LoadFingerprints(fingerprints, storeFile, disk)
  /\ pc' = "loaded"
  /\ hist' = [hist EXCEPT !.loaded = TRUE,
                          !.loadedLive = {d \in Digests : Exists(disk, fingerprints'[d])}]
  /\ last' = [op |-> "load"]
  /\ UNCHANGED <<dry_run, conflict_resolution, unknown_strategy, date_format, copied_files, summary, idx, disk,
                 dirs, storeFile, backupFile, returned>>

\* the input folder check (lines 132-134): a missing folder raises, the outer
\* handler logs and re-raises, main exits with 1
CheckInput ==
  /\ pc = "loaded"
  /\ \E inputExists \in BOOLEAN :
       pc' = IF inputExists THEN "loop" ELSE "failed"
  /\ last' = [op |-> "check"]
  /\ UNCHANGED <<dry_run, conflict_resolution, unknown_strategy, date_format, fingerprints, copied_files, summary,
                 idx, disk, dirs, storeFile, backupFile, returned, hist>>

\* one iteration of the loop over scan_files (lines 148-212)
ProcessFile ==
  /\ pc = "loop"
  /\ idx < MaxFiles
  /\ \E h \in Digests, b \in Bases, u \in 1..NumUuid, sc \in Scenarios,
        exif \in PipelineExif :
       LET metadata == ExtractMetadata(IF sc.fault = "meta" THEN "stat" ELSE "none",
                                       exif, NoDate, PipelineCtime, unknown_strategy)
           r == ProcessOne(idx + 1, h, b, u, sc.fault, sc.goneAt, sc.ioFails,
                           fingerprints, copied_files, disk, dirs, dry_run,
                           conflict_resolution)
           next == IF r.raised THEN HandleFileError
                   ELSE [pc |-> "loop", bucket |-> r.bucket]
       IN  /\ pc' = next.pc
           /\ summary' = Bump(summary, next.bucket)
           /\ idx' = idx + 1
           /\ fingerprints' = r.fp
           /\ copied_files' = r.copied
           /\ disk' = r.disk
           /\ dirs' = r.dirs
           /\ hist' = [hist EXCEPT
                 !.allValid = @ /\ FileValid(sc),
                 !.copiedHashes = IF next.bucket = "copied" /\ r.hash # NoHash
                                  THEN @ \cup {r.hash} ELSE @,
                 !.succeeded = IF r.copyOk THEN @ \cup {idx + 1} ELSE @,
                 !.undated = IF metadata.creation_date = NoDate THEN @ + 1 ELSE @]
           /\ last' = [op |-> "file", src |-> idx + 1, hash |-> r.hash,
                       dup |-> r.dup, copyCalled |-> r.copyCalled,
                       copyOk |-> r.copyOk, dest |-> r.dest,
                       bucket |-> next.bucket,
                       seenBefore |-> r.hash \in hist.copiedHashes,
                       inLoaded |-> r.hash \in hist.loadedLive]
  /\ UNCHANGED <<dry_run, conflict_resolution, unknown_strategy, date_format, storeFile, backupFile, returned>>

\* KeyboardInterrupt between two files: no handler in run_organization takes
\* it (it is no Exception), main prints and exits with 130 (lines 291-293)
Interrupt ==
  /\ pc = "loop"
  /\ pc' = "cancelled"
  /\ last' = [op |-> "interrupt"]
  /\ UNCHANGED <<dry_run, conflict_resolution, unknown_strategy, date_format, fingerprints, copied_files, summary,
                 idx, disk, dirs, storeFile, backupFile, returned, hist>>

\* the scan is exhausted: save_fingerprints (line 215)
Save ==
  /\ pc = "loop"
  /\ \E renameFails \in BOOLEAN, write \in WriteOutcomes, restoreFails \in BOOLEAN :
       LET s == SaveFingerprints(fingerprints, storeFile, backupFile,
                                 renameFails, write, restoreFails)
       IN  /\ storeFile' = s.file
           /\ backupFile' = s.backup
           /\ last' = [op |-> "save"]
  /\ pc' = "saved"
  /\ hist' = [hist EXCEPT !.saved = TRUE]
  /\ UNCHANGED <<dry_run, conflict_resolution, unknown_strategy, date_format, fingerprints, copied_files, summary,
                 idx, disk, dirs, returned>>

\* the summary is logged and returned, main prints it (lines 217-254, 286-289)
Summarize ==
  /\ pc = "saved"
  /\ pc' = "done"
  /\ returned' = [set |-> TRUE, value |-> summary]
  /\ last' = [op |-> "summary"]
  /\ UNCHANGED <<dry_run, conflict_resolution, unknown_strategy, date_format, fingerprints, copied_files, summary,
                 idx, disk, dirs, storeFile, backupFile, hist>>

Next == Load \/ CheckInput \/ ProcessFile \/ Interrupt \/ Save \/ Summarize

Spec == Init /\ [][Next]_vars

Exited == {"done", "cancelled", "failed"}
Counted == summary.copied + summary.skipped + summary.duplicates + summary.errors

\* ------------------------------------------------------ claims, pipeline

\* C1 (as claimed): a file whose content hash equals that of a file copied
\* earlier in the run, or that has a live entry in the loaded store, is
\* counted under duplicates and copy_file is not called for it, in real and
\* in dry-run mode.
C1_SecondFileIsDuplicate ==
  (last.op = "file" /\ last.hash # NoHash /\ (last.seenBefore \/ last.inLoaded))
    => (last.bucket = "duplicates" /\ ~last.copyCalled)

\* C3 (as claimed): however a run ends after the store was loaded (summary
\* returned, cancelled between two files, top-level error), save_fingerprints
\* has been executed.
C3_SavedOnEveryExit ==
  (pc \in Exited /\ hist.loaded) => hist.saved

\* C4: every file the scan yielded is counted under one counter and the loop
\* goes on after it, whatever its outcome; only the failure of the input
\* folder check, before any file, ends the run as a top-level error; from the
\* loop the save and then the summary can always be taken, and a finished
\* run has returned the summary.
C4_FileFailuresContained ==
  /\ Counted = idx
  /\ (last.op = "file" => pc = "loop")
  /\ (pc = "failed" => idx = 0)
  /\ (pc = "loop" => ENABLED Save)
  /\ (pc = "saved" => ENABLED Summarize)
  /\ (pc = "done" => returned.set /\ returned.value = summary /\ Counted = idx)

\* a run in which no file succeeded has reached the summary
C4_Witness ==
  /\ pc = "done"
  /\ summary.copied = 0
  /\ summary.errors >= 1
  /\ summary.skipped >= 1

\* C5: in a step of the loop an entry of the store is set or changed only for
\* the hash of the file just processed, only when its copy_file call returned
\* success, and to the destination of that copy; a file counted as duplicate,
\* skipped or error changes no entry, apart from the removal of the stale
\* entry of its own hash.
C5_StoreChangesOnlyAfterCopy ==
  [][(pc = "loop" /\ idx' = idx + 1) =>
       \A d \in Digests :
         fingerprints'[d] # fingerprints[d] =>
           \/ /\ last'.copyOk
              /\ last'.bucket = "copied"
              /\ d = last'.hash
              /\ fingerprints'[d] = last'.dest
           \/ /\ d = last'.hash
              /\ fingerprints'[d] = NoEntry
              /\ ~Exists(disk, fingerprints[d])]_vars

\* a file whose copy failed, after another was copied, has no entry
C5_Witness ==
  /\ last.op = "file"
  /\ last.copyCalled
  /\ ~last.copyOk
  /\ last.hash # NoHash
  /\ fingerprints[last.hash] = NoEntry
  /\ summary.copied >= 1

\* C6 (as claimed): a complete dry run leaves the output tree, its
\* directories, the store file and its backup as they were.
C6_DryRunMutatesNothing ==
  (dry_run /\ pc = "done") =>
    /\ disk = hist.disk0
    /\ dirs = hist.dirs0
    /\ storeFile = hist.store0
    /\ backupFile = hist.backup0

\* C7 (as claimed): a dry run over N valid files ends with copied = N and
\* with no file in the output tree that was not there before.
C7_DryRunCopiesAll ==
  (dry_run /\ pc = "done" /\ hist.allValid) =>
    (summary.copied = idx /\ disk = hist.disk0)

\* C7 (amended): a dry run over N valid files ends with copied = N minus the
\* files counted as duplicates, and with no file in the output tree that was
\* not there before.
C7_DryRunCopiesAllButDuplicates ==
  (dry_run /\ pc = "done" /\ hist.allValid) =>
    /\ summary.copied = idx - summary.duplicates
    /\ summary.skipped = 0
    /\ summary.errors = 0
    /\ disk = hist.disk0

\* a dry run over valid files, one of them a duplicate, has finished
C7_Witness ==
  /\ dry_run
  /\ pc = "done"
  /\ hist.allValid
  /\ idx >= 2
  /\ summary.duplicates >= 1
  /\ summary.copied >= 1

\* C14 (as claimed): when the run has finished, the summary's unknown counter
\* is the number of processed files for which no creation date was resolved.
C14_UnknownCounted ==
  pc = "done" => summary.unknown = hist.undated

\* C29 (as claimed): in a real run every entry of the store whose path exists
\* refers to a file whose content is the entry's hash, and a file counted as
\* duplicate has its content somewhere in the output tree.
C29_LiveEntriesMatchContent ==
  ~dry_run =>
    /\ \A d \in Digests :
         Exists(disk, fingerprints[d]) => disk[fingerprints[d]] = d
    /\ (last.op = "file" /\ last.bucket = "duplicates") =>
         \E q \in OutPaths : disk[q] = last.hash

\* the four outcome counters, in a fixed order
Counters(s) == <<s.copied, s.skipped, s.duplicates, s.errors>>

\* C30: each iteration of the loop adds one to exactly one of the counters
\* copied, skipped, duplicates, errors and leaves the other three as they
\* were, so the counters never decrease and their sum is the number of files
\* processed so far.
C30_OneCounterPerFile ==
  [][(pc = "loop" /\ idx' = idx + 1) =>
       /\ \E i \in 1..4 :
            /\ Counters(summary')[i] = Counters(summary)[i] + 1
            /\ \A j \in (1..4) \ {i} : Counters(summary')[j] = Counters(summary)[j]
       /\ summary'.copied + summary'.skipped + summary'.duplicates + summary'.errors
            = idx']_vars

\* two files were processed and counted under two different counters
C30_Witness ==
  /\ idx = 2
  /\ summary.duplicates = 1
  /\ summary.errors = 1
  /\ pc = "loop"


\* ------------------------------------- the fingerprint store, called freely
\* FingerprintManager's operations in any order on one instance, the
\* environment deleting output files in between.

FPEntries == {NoEntry, NoPath, NullPath, GonePath, Plain(1)}
\* maps a store file can hold: any entry for content 1, and for the other
\* contents none or one that shares its path
FPStores ==
  {fp \in [Digests -> FPEntries] :
     \A d \in Digests \ {1} : fp[d] \in {NoEntry, Plain(1)}}
FPStoreFiles == {AbsentFile, CorruptFile, NoKeyFile} \cup {DocFile(fp) : fp \in FPStores}
\* a backup left by an earlier save
OldBackup == DocFile([d \in Digests |-> GonePath])
FPBackups == {AbsentFile, OldBackup}

\* the variables of the pipeline and of the transfer executor, at rest
Idle(mode) ==
  /\ pc = mode
  /\ summary = ZeroSummary
  /\ idx = 0
  /\ returned = [set |-> FALSE, value |-> ZeroSummary]
  /\ last = NoOp

\* the state after FingerprintManager.__init__ (lines 20-39)
InitFP ==
  /\ Idle("fp")
  /\ dry_run = FALSE
  /\ conflict_resolution = "timestamp_suffix"
  /\ unknown_strategy = "route_to_unknown"
  /\ date_format = FormatDefault
  /\ fingerprints = EmptyStore
  /\ copied_files = {}
  /\ disk \in InitialDisks
  /\ dirs = DirsOf(disk)
  /\ storeFile \in FPStoreFiles
  /\ backupFile \in FPBackups
  /\ hist = InitHist(disk, storeFile, backupFile)

Called == hist' = [hist EXCEPT !.ops = @ + 1]

\* load_existing_fingerprints (lines 134-160)
FPLoad ==
  /\ pc = "fp" /\ hist.ops < MaxOps
  /\ fingerprints' = LoadFingerprints(fingerprints, storeFile, disk)
  /\ last' = [op |-> "load", file |-> storeFile, before |-> fingerprints]
  /\ Called
  /\ UNCHANGED <<pc, dry_run, conflict_resolution, unknown_strategy, date_format, copied_files, summary, idx,
                 disk, dirs, storeFile, backupFile, returned>>

\* is_duplicate (lines 82-109)
FPIsDuplicate ==
  /\ pc = "fp" /\ hist.ops < MaxOps
  /\ \E h \in Digests \cup {NoHash} :
       /\ fingerprints' = IsDuplicateStore(fingerprints, h, disk)
       /\ last' = [op |-> "dup", hash |-> h, before |-> fingerprints,
                   result |-> IsDuplicateResult(fingerprints, h, disk)]
  /\ Called
  /\ UNCHANGED <<pc, dry_run, conflict_resolution, unknown_strategy, date_format, copied_files, summary, idx,
                 disk, dirs, storeFile, backupFile, returned>>

\* record_fingerprint (lines 111-132)
FPRecord ==
  /\ pc = "fp" /\ hist.ops < MaxOps
  /\ \E h \in Digests \cup {NoHash}, p \in OutPaths :
       /\ fingerprints' = RecordFingerprint(fingerprints, h, p)
       /\ last' = [op |-> "record", hash |-> h, path |-> p, before |-> fingerprints]
  /\ Called
  /\ UNCHANGED <<pc, dry_run, conflict_resolution, unknown_strategy, date_format, copied_files, summary, idx,
                 disk, dirs, storeFile, backupFile, returned>>

\* save_fingerprints (lines 177-209)
FPSave ==
  /\ pc = "fp" /\ hist.ops < MaxOps
  /\ \E renameFails \in BOOLEAN, write \in WriteOutcomes, restoreFails \in BOOLEAN :
       LET s == SaveFingerprints(fingerprints, storeFile, backupFile,
                                 renameFails, write, restoreFails)
       IN  /\ storeFile' = s.file
           /\ backupFile' = s.backup
           /\ last' = [op |-> "save", fp |-> fingerprints, before |-> storeFile,
                       backupBefore |-> backupFile, write |-> write]
  /\ Called
  /\ UNCHANGED <<pc, dry_run, conflict_resolution, unknown_strategy, date_format, fingerprints, copied_files,
                 summary, idx, disk, dirs, returned>>

\* a file of the output tree is deleted behind the program's back
EnvDelete ==
  /\ pc = "fp" /\ hist.ops < MaxOps
  /\ \E p \in OutPaths :
       /\ disk[p] # NoFile
       /\ disk' = [disk EXCEPT ![p] = NoFile]
  /\ last' = [op |-> "env"]
  /\ Called
  /\ UNCHANGED <<pc, dry_run, conflict_resolution, unknown_strategy, date_format, fingerprints, copied_files,
                 summary, idx, dirs, storeFile, backupFile, returned>>

NextFP == FPLoad \/ FPIsDuplicate \/ FPRecord \/ FPSave \/ EnvDelete

SpecFP == InitFP /\ [][NextFP]_vars


\* ---------------------------------------------- claims, fingerprint store

\* the store held an entry for the hash just asked about
HeldEntry == last.hash \in Digests /\ last.before[last.hash] # NoEntry
\* ... and the path of that entry exists on disk
LiveEntry == HeldEntry /\ Exists(disk, last.before[last.hash])

\* C2: is_duplicate returns true exactly when the store holds an entry for
\* the digest whose path exists on disk; when the entry is there and its
\* path is missing, the entry is removed and the answer is false; in every
\* other case the store is as it was.
C2_IsDuplicateContract ==
  last.op = "dup" =>
    /\ last.result <=> LiveEntry
    /\ (HeldEntry /\ ~LiveEntry) =>
         /\ ~last.result
         /\ fingerprints = [last.before EXCEPT ![last.hash] = NoEntry]
    /\ ~(HeldEntry /\ ~LiveEntry) => fingerprints = last.before

\* a stale entry, its file deleted after it was recorded, has been asked
\* about and is gone
C2_Witness ==
  /\ last.op = "dup"
  /\ HeldEntry
  /\ last.before[last.hash] \in OutPaths
  /\ ~LiveEntry
  /\ ~last.result
  /\ fingerprints[last.hash] = NoEntry

\* C9 (as claimed): after save_fingerprints the store file holds the store
\* just written, with the file it replaced as the backup, or exactly what it
\* held before the call; never a torn write, never an older backup.
C9_SaveIsAtomic ==
  last.op = "save" =>
    \/ /\ storeFile = DocFile(last.fp)
       /\ last.before.kind # "absent" => backupFile = last.before
    \/ storeFile = last.before

\* C10 (as claimed): a load of a missing or unparsable file or of a document
\* without the map leaves the store empty, and after a load of a well-formed
\* file every entry that remains refers to a path that exists on disk.
C10_LoadLeavesNoStaleEntry ==
  last.op = "load" =>
    /\ (last.file.kind \in {"corrupt", "partial", "nokey"}) => fingerprints = EmptyStore
    /\ (last.file.kind = "absent" /\ last.before = EmptyStore) => fingerprints = EmptyStore
    /\ (last.file.kind = "doc") =>
         \A d \in StoreKeys(fingerprints) : Exists(disk, fingerprints[d])

\* C13: record_fingerprint(digest, path) with a digest leaves the entry of
\* that digest with the path just recorded, whatever entry the digest had
\* before, and the entries of all other digests as they were; without a
\* digest it changes nothing. The store is keyed by digest, so after any
\* sequence of operations it holds at most one entry per digest.
C13_RecordUpserts ==
  last.op = "record" =>
    IF last.hash = NoHash
    THEN fingerprints = last.before
    ELSE /\ fingerprints[last.hash] = last.path
         /\ \A d \in Digests \ {last.hash} : fingerprints[d] = last.before[d]
         /\ Cardinality({d \in StoreKeys(fingerprints) : d = last.hash}) = 1

\* an entry was replaced by one with another path while another digest kept
\* its entry
C13_Witness ==
  /\ last.op = "record"
  /\ last.hash # NoHash
  /\ last.before[last.hash] \notin {NoEntry, last.path}
  /\ fingerprints[last.hash] = last.path
  /\ \E d \in Digests \ {last.hash} : fingerprints[d] # NoEntry


\* ------------------------------------ the transfer executor, called freely
\* FileMover.copy_file called in any order on one instance, for any source,
\* destination and course of the file operations.

\* the courses a call can take: those of the retry loop, and the failure to
\* create the destination's parent
CopyCourses ==
  {Scenario("none", 0, i) : i \in 0..MAX_RETRY_ATTEMPTS}
    \cup {Scenario("none", g, g - 1) : g \in 1..MAX_RETRY_ATTEMPTS}
    \cup {Scenario("mkdir", 0, 0)}

\* the content of the source file src
SrcContent(src) == ((src - 1) % NumDigests) + 1

\* the state after FileMover.__init__ (lines 25-44)
InitFM ==
  /\ Idle("fm")
  /\ dry_run \in BOOLEAN
  /\ conflict_resolution \in Policies
  /\ unknown_strategy = "route_to_unknown"
  /\ date_format = FormatDefault
  /\ fingerprints = EmptyStore
  /\ copied_files = {}
  /\ disk \in InitialDisks
  /\ dirs = DirsOf(disk)
  /\ storeFile = AbsentFile
  /\ backupFile = AbsentFile
  /\ hist = InitHist(disk, storeFile, backupFile)

\* copy_file (lines 253-315)
FMCopy ==
  /\ pc = "fm" /\ hist.ops < MaxCopies
  /\ \E src \in 1..MaxFiles, dest \in OutPaths, sc \in CopyCourses :
       LET c == CopyFile(src, dest, SrcContent(src), dry_run, copied_files, disk,
                         dirs, sc.fault = "mkdir", sc.goneAt, sc.ioFails)
       IN  /\ copied_files' = c.copied
           /\ disk' = c.disk
           /\ dirs' = c.dirs
           /\ last' = [op |-> "copy", src |-> src, dest |-> dest, ok |-> c.ok,
                       srcExists |-> sc.goneAt # 1,
                       attempts |-> c.attempts, before |-> copied_files,
                       goneAt |-> sc.goneAt, ioFails |-> sc.ioFails,
                       mkdirFails |-> sc.fault = "mkdir",
                       diskBefore |-> disk, dirsBefore |-> dirs]
           /\ hist' = [hist EXCEPT !.ops = @ + 1,
                                   !.succeeded = IF c.ok THEN @ \cup {src} ELSE @]
  /\ UNCHANGED <<pc, dry_run, conflict_resolution, unknown_strategy, date_format, fingerprints, summary, idx,
                 storeFile, backupFile, returned>>

NextFM == FMCopy

SpecFM == InitFM /\ [][NextFM]_vars

\* --------------------------------------------- claims, transfer executor

\* C8 (as claimed): in dry-run mode copy_file returns success only if the
\* source exists at the call; with the source missing it returns failure and
\* the processed set is as it was.
C8_DryRunNeedsSource ==
  (last.op = "copy" /\ dry_run) =>
    /\ last.ok => last.srcExists
    /\ ~last.srcExists => (~last.ok /\ copied_files = last.before)

\* C11: a copy_file call for a source that an earlier call of the run
\* returned success for returns failure, copies nothing, creates no directory
\* and leaves the processed set as it was; the processed set holds exactly
\* the sources some earlier call returned success for.
C11_ProcessedGuard ==
  /\ copied_files = hist.succeeded
  /\ (last.op = "copy" /\ last.src \in last.before) =>
       /\ ~last.ok
       /\ disk = last.diskBefore
       /\ dirs = last.dirsBefore
       /\ copied_files = last.before

\* a source that was copied has been handed to copy_file again, with a
\* source that exists and file operations that would succeed
C11_Witness ==
  /\ last.op = "copy"
  /\ ~dry_run
  /\ last.src \in last.before
  /\ last.goneAt = 0 /\ last.ioFails = 0 /\ ~last.mkdirFails
  /\ ~last.ok

\* a real-mode call that reached the retry loop
ReachedRetryLoop ==
  last.op = "copy" /\ ~dry_run /\ last.src \notin last.before /\ ~last.mkdirFails

\* C12: a real-mode copy_file call makes between one and MAX_RETRY_ATTEMPTS
\* attempts; every attempt before the last one ended in an I/O or permission
\* error; it returns success only after an attempt that left the destination
\* on disk; a source found missing at the start of an attempt ends the call
\* with failure at that attempt; MAX_RETRY_ATTEMPTS failed attempts end it
\* with failure.
C12_BoundedRetry ==
  ReachedRetryLoop =>
    /\ last.attempts \in 1..MAX_RETRY_ATTEMPTS
    /\ last.ioFails >= last.attempts - 1
    /\ last.ok =>
         /\ Exists(disk, last.dest)
         /\ last.attempts = last.ioFails + 1
         /\ (last.goneAt = 0 \/ last.goneAt > last.attempts)
    /\ (last.goneAt # 0 /\ last.goneAt <= last.ioFails + 1) =>
         (~last.ok /\ last.attempts = last.goneAt)
    /\ (last.goneAt = 0 /\ last.ioFails >= MAX_RETRY_ATTEMPTS) =>
         (~last.ok /\ last.attempts = MAX_RETRY_ATTEMPTS)

\* the source went missing after one failed attempt: the call ended at the
\* second attempt with failure
C12_Witness ==
  /\ ReachedRetryLoop
  /\ last.goneAt = 2
  /\ last.attempts = 2
  /\ ~last.ok


\* ------------------------- the metadata resolver and the destination planner
\* extract_metadata for one file, then determine_destination for it, computed
\* twice over the same output tree.

\* output trees: any of the paths of the first planned destination exists
PlanDisks ==
  {[p \in OutPaths |-> IF p \in S THEN 1 ELSE NoFile] :
     S \in SUBSET {p \in OutPaths : p[1] = 1}}

\* the state after MetadataParser.__init__ and FileMover.__init__
InitPL ==
  /\ Idle("pl")
  /\ dry_run = FALSE
  /\ conflict_resolution \in Policies
  /\ unknown_strategy \in UnknownStrategies
  /\ date_format \in DateFormats
  /\ fingerprints = EmptyStore
  /\ copied_files = {}
  /\ disk \in PlanDisks
  /\ dirs = DirsOf(disk)
  /\ storeFile = AbsentFile
  /\ backupFile = AbsentFile
  /\ hist = InitHist(disk, storeFile, backupFile)

\* extract_metadata (lines 79-135); exif and fname are what the stages yield
\* when they are run
Resolve ==
  /\ pc = "pl"
  /\ \E file \in SourceFiles, fault \in {"none", "stat", "mtime"},
        exif \in ExifDates \cup {NoDate}, fname \in FilenameDates \cup {NoDate},
        ctime \in CtimeDates :
       /\ (fault # "none") => (exif = NoDate /\ fname = NoDate)
       /\ last' = [op |-> "resolve", file |-> file, fault |-> fault, exif |-> exif,
                   fname |-> fname, ctime |-> ctime,
                   md |-> ExtractMetadata(fault, exif, fname, ctime, unknown_strategy)]
  /\ pc' = "resolved"
  /\ UNCHANGED <<dry_run, conflict_resolution, unknown_strategy, date_format,
                 fingerprints, copied_files, summary, idx, disk, dirs, storeFile,
                 backupFile, returned, hist>>

\* determine_destination (lines 84-130) for the file just resolved, computed
\* at the second now1 with the token u1, and again at now2 with u2
Plan ==
  /\ pc = "resolved"
  /\ \E b \in Bases, u1 \in 1..NumUuid, u2 \in 1..NumUuid, now1 \in Clock,
        now2 \in Clock, padYear \in BOOLEAN :
       last' = [op |-> "plan", file |-> last.file, md |-> last.md, b |-> b,
                now |-> now1, padYear |-> padYear,
                first |-> DetermineDestination(last.file, last.md, b, unknown_strategy,
                            date_format, conflict_resolution, disk, u1, now1, padYear),
                second |-> DetermineDestination(last.file, last.md, b, unknown_strategy,
                            date_format, conflict_resolution, disk, u2, now2, padYear)]
  /\ pc' = "planned"
  /\ UNCHANGED <<dry_run, conflict_resolution, unknown_strategy, date_format,
                 fingerprints, copied_files, summary, idx, disk, dirs, storeFile,
                 backupFile, returned, hist>>

NextPL == Resolve \/ Plan

SpecPL == InitPL /\ [][NextPL]_vars

\* ------------------------------------------- claims, resolver and planner

\* C15 (as claimed): the first of the stages external tool, file name,
\* (under use_ctime) filesystem time that yields a date decides the date and
\* the tag; when none yields a date the date is absent and the tag is
\* unknown; a date is present exactly when the tag is not unknown.
C15_FirstStageWins ==
  last.op = "resolve" =>
    LET md == last.md IN
    /\ last.exif # NoDate =>
         (md.creation_date = last.exif /\ md.extraction_method = "exif")
    /\ (last.exif = NoDate /\ last.fname # NoDate) =>
         (md.creation_date = last.fname /\ md.extraction_method = "filename")
    /\ (last.exif = NoDate /\ last.fname = NoDate /\ last.fault = "none"
          /\ unknown_strategy = "use_ctime") =>
         (md.creation_date = last.ctime /\ md.extraction_method = "file_ctime")
    /\ (last.exif = NoDate /\ last.fname = NoDate
          /\ (last.fault # "none" \/ unknown_strategy # "use_ctime")) =>
         (md.creation_date = NoDate /\ md.extraction_method = "unknown")
    /\ (md.creation_date # NoDate) <=> (md.extraction_method # "unknown")

\* C16 (as claimed): two computations of the destination for the same file,
\* the same metadata and the same output tree give the same path.
C16_PlanIsIdempotent ==
  last.op = "plan" => last.first = last.second

\* the smallest counter whose timestamp-suffixed path is free at the second
\* of the first computation, 0 if there is none
SmallestFree ==
  IF \E n \in 1..MaxCounter : ~Exists(disk, TsAt(last.b, last.now, n))
  THEN CHOOSE n \in 1..MaxCounter :
         /\ ~Exists(disk, TsAt(last.b, last.now, n))
         /\ \A m \in 1..(n - 1) : Exists(disk, TsAt(last.b, last.now, m))
  ELSE 0

\* C17 (as claimed): under timestamp_suffix, with the planned path taken,
\* the planner returns the timestamp-suffixed path with the smallest free
\* counter, named stem_HHMMSS_NNN; what it returns is not the taken path and
\* does not exist, also when every counter is taken and the random suffix is
\* used.
C17_TimestampSuffixIsFree ==
  (last.op = "plan" /\ conflict_resolution = "timestamp_suffix"
     /\ Exists(disk, Plain(last.b))) =>
    /\ SmallestFree # 0 =>
         /\ last.first.path = TsAt(last.b, last.now, SmallestFree)
         /\ last.first.name =
              GenerateStem(last.file, last.md.creation_date, date_format, last.padYear)
                \o <<"_">> \o ClockText(last.now) \o <<"_">> \o Pad(SmallestFree, 3)
                \o last.file.suffix
    /\ last.first.path # Plain(last.b)
    /\ ~Exists(disk, last.first.path)

\* output_root/YYYY/MM for a date
YearMonthDir(d) == <<Pad(d.year, 4), Pad(d.month, 2)>>

\* C18 (as claimed): with a resolved date the directory is the four-digit
\* year and the two-digit month of the date; without one, under use_ctime
\* and with a ctime, those of the ctime.
C18_DatedDirectory ==
  last.op = "plan" =>
    /\ last.md.creation_date # NoDate =>
         last.first.dir = YearMonthDir(last.md.creation_date)
    /\ (last.md.creation_date = NoDate /\ unknown_strategy = "use_ctime"
          /\ last.md.file_ctime # NoDate) =>
         last.first.dir = YearMonthDir(last.md.file_ctime)

\* C19 (as claimed): without a date, under route_to_unknown or without a
\* ctime, the directory is unknown followed by the file's directory relative
\* to the input root.
C19_UnknownKeepsStructure ==
  (last.op = "plan" /\ last.md.creation_date = NoDate
     /\ (unknown_strategy = "route_to_unknown" \/ last.md.file_ctime = NoDate)) =>
    last.first.dir = <<UnknownDir>> \o last.file.parent

\* the template rendered field by field, the sub-second field as the token
\* of the file when the microseconds are zero and as three digits of
\* milliseconds otherwise
RECURSIVE RenderedFieldwise(_, _, _, _)
RenderedFieldwise(fmt, d, file, padYear) ==
  IF fmt = <<>> THEN <<>>
  ELSE (IF Head(fmt) = "%f"
        THEN IF d.microsecond = 0 THEN file.token ELSE Pad(d.microsecond \div 1000, 3)
        ELSE StrfField(Head(fmt), d, padYear))
         \o RenderedFieldwise(Tail(fmt), d, file, padYear)

\* 2024-07-16_18-22-07
ExampleName ==
  <<"2", "0", "2", "4", "-", "0", "7", "-", "1", "6", "_", "1", "8", "-", "2", "2",
    "-", "0", "7">>

\* C20 (as claimed): the planned file name is the template rendered field by
\* field plus the suffix of the source, only the sub-second field differing
\* from what strftime renders; the example template renders the example date
\* as 2024-07-16_18-22-07.
C20_OnlySubSecondAltered ==
  (last.op = "plan" /\ last.md.creation_date # NoDate) =>
    /\ last.first.planned =
         RenderedFieldwise(date_format, last.md.creation_date, last.file, last.padYear)
           \o last.file.suffix
    /\ (date_format = FormatExample
          /\ last.md.creation_date = Date(2024, 7, 16, 18, 22, 7, 0)) =>
         last.first.planned = ExampleName \o last.file.suffix

\* --------------------------------------------- a dry run, then a real run
\* run_organization called as a whole over the same input folder: once with
\* dry_run set, then again without, each call with components of its own.

\* the element of a set of one: in TheOnly({e(x) : x \in {v}}) the value v is
\* computed once and e reads it as x
TheOnly(S) == CHOOSE x \in S : TRUE

\* the files the scan yields, in scan order: content and planned destination
ScannedFile(h, b) == [h |-> h, b |-> b]
ScannedFiles == {ScannedFile(h, b) : h \in Digests, b \in Bases}
InputSets ==
  {<<f>> : f \in ScannedFiles} \cup {<<f, g>> : f \in ScannedFiles, g \in ScannedFiles}

\* the loop over scan_files (lines 148-212) from the i-th file on; acc holds
\* the summary and the files counted as copied and as duplicates
\* one more file counted: the summary and the files copied and duplicate
Account(acc, i, bucket) ==
  [summary |-> Bump(acc.summary, bucket),
   copiedSrc |-> IF bucket = "copied" THEN acc.copiedSrc \cup {i} ELSE acc.copiedSrc,
   dupSrc |-> IF bucket = "duplicates" THEN acc.dupSrc \cup {i} ELSE acc.dupSrc]

RECURSIVE RunFiles(_, _, _, _, _, _, _, _, _)
RunFiles(files, i, fp, copied, dsk, drs, dry, policy, acc) ==
  IF i > Len(files)
  THEN [fp |-> fp, copied |-> copied, disk |-> dsk, dirs |-> drs,
        summary |-> acc.summary, copiedSrc |-> acc.copiedSrc, dupSrc |-> acc.dupSrc]
  ELSE TheOnly({
         TheOnly({RunFiles(files, i + 1, r.fp, r.copied, r.disk, r.dirs, dry, policy, a) :
                    a \in {Account(acc, i, IF r.raised THEN HandleFileError.bucket
                                           ELSE r.bucket)}}) :
           r \in {ProcessOne(i, files[i].h, files[i].b, 1, "none", 0, 0,
                             fp, copied, dsk, drs, dry, policy)}})

\* run_organization (lines 114-258) with no fault from the environment: new
\* components, load, the loop, save
RunOrganization(files, dsk, drs, file, backup, dry, policy) ==
  TheOnly({
    TheOnly({
      TheOnly({[fp |-> r.fp, copied |-> r.copied, disk |-> r.disk, dirs |-> r.dirs,
                file |-> s.file, backup |-> s.backup, summary |-> r.summary,
                copiedSrc |-> r.copiedSrc, dupSrc |-> r.dupSrc] :
                 s \in {SaveFingerprints(r.fp, file, backup, FALSE, "ok", FALSE)}}) :
        r \in {RunFiles(files, 1, fp0, {}, dsk, drs, dry, policy,
                        [summary |-> ZeroSummary, copiedSrc |-> {}, dupSrc |-> {}])}}) :
      fp0 \in {LoadFingerprints(EmptyStore, file, dsk)}})

\* the process is started over an input folder and an output tree
InitRR ==
  /\ pc = "rr"
  /\ dry_run = FALSE
  /\ conflict_resolution \in Policies
  /\ unknown_strategy = "route_to_unknown"
  /\ date_format = FormatDefault
  /\ fingerprints = EmptyStore
  /\ copied_files = {}
  /\ summary = ZeroSummary
  /\ idx = 0
  /\ disk \in InitialDisks
  /\ dirs = DirsOf(disk)
  /\ storeFile \in InitialStoreFiles
  /\ backupFile \in InitialBackups
  /\ returned = [set |-> FALSE, value |-> ZeroSummary]
  /\ hist = InitHist(disk, storeFile, backupFile)
  /\ \E files \in InputSets : last = [op |-> "scan", files |-> files]

RunWith(dry, to) ==
  \E r \in {RunOrganization(last.files, disk, dirs, storeFile, backupFile, dry,
                            conflict_resolution)} :
      /\ pc' = to
      /\ dry_run' = dry
      /\ fingerprints' = r.fp
      /\ copied_files' = r.copied
      /\ summary' = r.summary
      /\ idx' = Len(last.files)
      /\ disk' = r.disk
      /\ dirs' = r.dirs
      /\ storeFile' = r.file
      /\ backupFile' = r.backup
      /\ returned' = [set |-> TRUE, value |-> r.summary]
      /\ hist' = [hist EXCEPT !.loaded = TRUE, !.saved = TRUE]
      /\ last' = [op |-> "run", files |-> last.files, dry |-> dry,
                  afterDry |-> pc = "dried",
                  copiedSrc |-> r.copiedSrc, dupSrc |-> r.dupSrc,
                  alone |-> RunOrganization(last.files, hist.disk0, hist.dirs0,
                                            hist.store0, hist.backup0, dry,
                                            conflict_resolution)]
      /\ UNCHANGED <<conflict_resolution, unknown_strategy, date_format>>

\* python -m photo_organizer --dry-run
DryRun == pc = "rr" /\ RunWith(TRUE, "dried")

\* python -m photo_organizer, as the first call or after the dry run
RealRun == pc \in {"rr", "dried"} /\ RunWith(FALSE, "ran")

NextRR == DryRun \/ RealRun

SpecRR == InitRR /\ [][NextRR]_vars

\* ------------------------------------------ claims, dry run then real run

\* C28 (as claimed): a real run executed after a dry run over the same input
\* copies exactly the files, and reports exactly the duplicates, that the real
\* run alone would have, from the same output tree and store.
C28_DryRunLeavesNoTrace ==
  (last.op = "run" /\ ~last.dry /\ last.afterDry) =>
    /\ last.copiedSrc = last.alone.copiedSrc
    /\ last.dupSrc = last.alone.dupSrc

\* ------------------------------------------- the configuration stage of main
\* main: the command line is parsed, load_and_validate_config loads the file,
\* merges the command line over it and validates; then run_organization.

Keys == {"input_folder", "output_folder", "dry_run", "log_mode", "verbose"}
LogModes == {"console", "file", "both"}

\* DEFAULT_CONFIG, the keys the command line can set
DefaultConfig ==
  [input_folder |-> "", output_folder |-> "", dry_run |-> FALSE,
   log_mode |-> "console", verbose |-> 0]

\* an option that is not on the command line
NotGiven == "<not given>"

\* A command line: --input and --output with their values, --dry-run present
\* or not, --log-mode with its value, the number of -v.
CommandLine(i, o, d, l, v) ==
  [input |-> i, output |-> o, dry_run |-> d, log_mode |-> l, verbose |-> v]
CommandLines ==
  {CommandLine(i, o, d, l, v) :
     i \in {NotGiven, "photos"}, o \in {NotGiven, "sorted", "sorted/../photos"},
     d \in BOOLEAN, l \in {NotGiven, "file"}, v \in 0..1}

\* the options the user gave
Given(cmd) ==
  {k \in Keys :
     CASE k = "input_folder" -> cmd.input # NotGiven
       [] k = "output_folder" -> cmd.output # NotGiven
       [] k = "dry_run" -> cmd.dry_run
       [] k = "log_mode" -> cmd.log_mode # NotGiven
       [] OTHER -> cmd.verbose > 0}

\* create_parser and parse_args: the namespace. none holds the attributes
\* that are None; store_true, count and --log-mode have defaults of their own.
ParseArgs(cmd) ==
  [none |-> {k \in {"input_folder", "output_folder"} : k \notin Given(cmd)},
   val |-> [input_folder |-> cmd.input, output_folder |-> cmd.output,
            dry_run |-> cmd.dry_run,
            log_mode |-> IF cmd.log_mode = NotGiven THEN "console" ELSE cmd.log_mode,
            verbose |-> cmd.verbose]]

\* main, lines 267-276: the dict of the arguments, None values removed
CliArgs(args) == [keys |-> Keys \ args.none, val |-> args.val]

\* The file --config names: not given, missing, not JSON, JSON that is no
\* object, or an object with some of the keys.
NoConfigFile == [kind |-> "none", has |-> {}, val |-> DefaultConfig]
ObjectFile(has, val) == [kind |-> "object", has |-> has, val |-> val]
FileValues ==
  [input_folder : {"", " ", "photos"}, output_folder : {"sorted", "photos"},
   dry_run : {TRUE}, log_mode : {"both"}, verbose : {2}]
FirstFileValue ==
  [input_folder |-> "", output_folder |-> "sorted", dry_run |-> TRUE,
   log_mode |-> "both", verbose |-> 2]
ConfigFiles ==
  {NoConfigFile}
    \cup {[NoConfigFile EXCEPT !.kind = k] : k \in {"missing", "invalid_json", "not_object"}}
    \cup UNION {{ObjectFile(has, val) : val \in
                    {v \in FileValues : \A k \in Keys \ has : v[k] = FirstFileValue[k]}} :
                 has \in SUBSET Keys}

\* json.JSONDecodeError(...) called with nargs positional arguments: the
\* constructor takes msg, doc and pos
NewJSONDecodeError(nargs) == IF nargs = 3 THEN "JSONDecodeError" ELSE "TypeError"

\* load_from_file: the exception that leaves it ("none": it returns) and
\* the configuration returned
LoadFromFile(file) ==
  CASE file.kind = "missing" -> [raised |-> "FileNotFoundError", config |-> DefaultConfig]
    [] file.kind = "invalid_json" ->
         [raised |-> NewJSONDecodeError(1), config |-> DefaultConfig]
    [] file.kind = "not_object" -> [raised |-> "ValueError", config |-> DefaultConfig]
    [] OTHER ->
         [raised |-> "none",
          config |-> [k \in Keys |-> IF k \in file.has THEN file.val[k]
                                     ELSE DefaultConfig[k]]]

\* merge_cli_args
MergeCliArgs(config, cli_args) ==
  [k \in DOMAIN config |-> IF k \in cli_args.keys THEN cli_args.val[k] ELSE config[k]]

\* Path(p).resolve() and Path(p).exists(), over the directories that exist
ResolvePath(p) == IF p = "sorted/../photos" THEN "photos" ELSE p
Environments == SUBSET {"photos", "sorted"}
PathExists(p, env) ==
  IF p = "sorted/../photos" THEN {"photos", "sorted"} \subseteq env ELSE p \in env

\* not config[field] or not str(config[field]).strip()
IsEmpty(s) == s \in {"", " "}

ValidateRequiredFields(config) ==
  {<<"missing", f>> : f \in {"input_folder", "output_folder"} \ DOMAIN config}
    \cup {<<"empty", f>> :
            f \in {g \in {"input_folder", "output_folder"} \cap DOMAIN config :
                     IsEmpty(config[g])}}

ValidatePaths(config, env) ==
  IF "input_folder" \in DOMAIN config /\ config.input_folder # ""
       /\ ~PathExists(config.input_folder, env)
  THEN {<<"not found", "input_folder">>} ELSE {}

ValidateEnumValues(config) ==
  IF "log_mode" \in DOMAIN config /\ config.log_mode \notin LogModes
  THEN {<<"invalid", "log_mode">>} ELSE {}

ValidateNumericValues(config) ==
  IF "verbose" \in DOMAIN config /\ config.verbose \notin 0..3
  THEN {<<"invalid", "verbose">>} ELSE {}

\* the check that input and output differ is left out
ValidateLogicalConsistency_None(config) == {}

ValidateLogicalConsistency(config) ==
  IF /\ "input_folder" \in DOMAIN config /\ "output_folder" \in DOMAIN config
     /\ config.input_folder # "" /\ config.output_folder # ""
     /\ ResolvePath(config.input_folder) = ResolvePath(config.output_folder)
  THEN {<<"same", "folders">>} ELSE {}

\* validate: the errors collected
Validate(config, env) ==
  ValidateRequiredFields(config) \cup ValidatePaths(config, env)
    \cup ValidateEnumValues(config) \cup ValidateNumericValues(config)
    \cup ValidateLogicalConsistency(config)

\* load_and_validate_config: the configuration it returns, or the exit
LoadAndValidateConfig(cmd, file, env) ==
  LET loaded == IF file.kind = "none"
                THEN [raised |-> "none", config |-> DefaultConfig]
                ELSE LoadFromFile(file)
      merged == MergeCliArgs(loaded.config, CliArgs(ParseArgs(cmd)))
      errors == Validate(merged, env)
  IN  [raised |-> loaded.raised, config |-> merged,
       errors |-> IF loaded.raised = "none" THEN errors ELSE {},
       exit |-> IF loaded.raised # "none" \/ errors # {} THEN 1 ELSE 0]

\* the process is started: a command line, a config file, the directories
InitCF ==
  /\ pc = "main"
  /\ dry_run = FALSE
  /\ conflict_resolution = "timestamp_suffix"
  /\ unknown_strategy = "route_to_unknown"
  /\ date_format = FormatDefault
  /\ fingerprints = EmptyStore
  /\ copied_files = {}
  /\ summary = ZeroSummary
  /\ idx = 0
  /\ disk = [p \in OutPaths |-> NoFile]
  /\ dirs = DirsOf(disk)
  /\ storeFile \in {AbsentFile, DocFile(EmptyStore)}
  /\ backupFile = AbsentFile
  /\ returned = [set |-> FALSE, value |-> ZeroSummary]
  /\ hist = InitHist(disk, storeFile, backupFile)
  /\ \E cmd \in CommandLines, file \in ConfigFiles, env \in Environments :
       last = [op |-> "argv", cmd |-> cmd, file |-> file, env |-> env]

\* main up to the call of run_organization (lines 263-280): sys.exit(1) ends
\* the process, otherwise the components are built from the configuration
Configure ==
  /\ pc = "main"
  /\ LET c == LoadAndValidateConfig(last.cmd, last.file, last.env)
     IN  /\ pc' = IF c.exit = 0 THEN "start" ELSE "rejected"
         /\ dry_run' = IF c.exit = 0 THEN c.config.dry_run ELSE dry_run
         /\ last' = [op |-> "config", cmd |-> last.cmd, file |-> last.file,
                     env |-> last.env, raised |-> c.raised, config |-> c.config,
                     errors |-> c.errors, exit |-> c.exit]
  /\ UNCHANGED <<conflict_resolution, unknown_strategy, date_format, fingerprints,
                 copied_files, summary, idx, disk, dirs, storeFile, backupFile,
                 returned, hist>>

NextCF == Configure \/ Next

SpecCF == InitCF /\ [][NextCF]_vars

\* --------------------------------------------- claims, configuration stage

\* the folders of a merged configuration are missing, empty or the same
BadFolders(config) ==
  \/ \E f \in {"input_folder", "output_folder"} :
       f \notin DOMAIN config \/ config[f] = ""
  \/ ResolvePath(config.input_folder) = ResolvePath(config.output_folder)

Effective(cmd, file, k) ==
  IF k \in Given(cmd) THEN ParseArgs(cmd).val[k]
  ELSE IF file.kind = "object" /\ k \in file.has THEN file.val[k]
  ELSE DefaultConfig[k]

C22_CommandLineThenFileThenDefault ==
  (last.op = "config" /\ last.raised = "none") =>
    \A k \in Keys : last.config[k] = Effective(last.cmd, last.file, k)

\* C23 (as claimed): load_from_file on a file that is not valid JSON ends
\* with json.JSONDecodeError and no other kind of error.
C23_InvalidJsonRaisesDecodeError ==
  (last.op = "config" /\ last.file.kind = "invalid_json") =>
    (last.raised = "JSONDecodeError" /\ last.exit # 0)

\* ------------------------------------------------ the functions over text
\* _sanitize_filename, _extract_from_filename and _extract_with_exiftool,
\* each called on its own with any of a set of inputs.

Repeat(c, n) == [i \in 1..n |-> c]
Texts(alphabet, n) == UNION {[1..k -> alphabet] : k \in 0..n}

\* names handed to _sanitize_filename: short ones over letters, dots, blanks,
\* tabs and an unsafe character, and ones of about the length limit
MaxShortName == 3
ShortNames == Texts({"a", ".", " ", "\t", "<"}, MaxShortName)
LongNames ==
  {Repeat("a", n) \o t : n \in 198..200, t \in Texts({"a", ".", " "}, 2)}

\* Regular expressions as constants.py uses them: a pattern is a sequence of
\* elements, each a character class repeated min..max times, greedy; the
\* elements marked grp are the groups.
Digit == {DigitChars[i] : i \in 1..10}
D(min, max) == [cls |-> Digit, min |-> min, max |-> max, grp |-> TRUE]
OneOf(chars) == [cls |-> chars, min |-> 1, max |-> 1, grp |-> FALSE]
Literal(text) == [i \in 1..Len(text) |-> OneOf({text[i]})]

\* the numbers of characters element e can take at pos
Counts(e, text, pos) ==
  {c \in e.min..e.max :
     /\ pos + c - 1 <= Len(text)
     /\ \A i \in 0..(c - 1) : text[pos + i] \in e.cls}

\* Every way the elements from the k-th on match the text at pos: the
\* characters each element takes, where the match ends, and the groups.
RECURSIVE Matches(_, _, _, _)
Matches(pat, k, text, pos) ==
  IF k > Len(pat) THEN {[counts |-> <<>>, end |-> pos - 1, groups |-> <<>>]}
  ELSE UNION {{[counts |-> <<c>> \o rest.counts, end |-> rest.end,
                groups |-> (IF pat[k].grp THEN <<SubSeq(text, pos, pos + c - 1)>>
                            ELSE <<>>) \o rest.groups] :
                 rest \in Matches(pat, k + 1, text, pos + c)} :
              c \in Counts(pat[k], text, pos)}

NoMatch == [ok |-> FALSE, start |-> 0, end |-> 0, groups |-> <<>>]

\* every match of the pattern in the text, at every position
Candidates(pat, text) ==
  UNION {{[ok |-> TRUE, start |-> s, end |-> r.end, groups |-> r.groups,
           counts |-> r.counts] : r \in Matches(pat, 1, text, s)} :
         s \in 1..(Len(text) + 1)}

\* the engine reaches a before b: a starts earlier, or at the same position
\* and, at the first element where they differ, a takes more (greedy)
TriedBefore(a, b) ==
  \/ a.start < b.start
  \/ /\ a.start = b.start
     /\ \E i \in 1..Len(a.counts) :
          a.counts[i] > b.counts[i] /\ \A j \in 1..(i - 1) : a.counts[j] = b.counts[j]

FirstTried(found) ==
  IF found = {} THEN NoMatch
  ELSE LET a == CHOOSE x \in found : \A y \in found \ {x} : TriedBefore(x, y)
       IN  [ok |-> TRUE, start |-> a.start, end |-> a.end, groups |-> a.groups]

\* pattern.search
Search(pat, text) == TheOnly({FirstTried(found) : found \in {Candidates(pat, text)}})

\* int(group)
DigitValue(c) == CHOOSE v \in 0..9 : DigitChars[v + 1] = c
RECURSIVE ToInt(_)
ToInt(digits) ==
  IF digits = <<>> THEN 0
  ELSE ToInt(SubSeq(digits, 1, Len(digits) - 1)) * 10 + DigitValue(digits[Len(digits)])

DATE_PATTERNS ==
  << <<D(4, 4), OneOf({"_", "-"}), D(1, 2), OneOf({"_", "-"}), D(1, 2)>>,
     <<D(1, 2), OneOf({"_", "/", "-"}), D(1, 2), OneOf({"_", "/", "-"}), D(4, 4)>>,
     <<D(4, 4), D(2, 2), D(2, 2), OneOf({"_", "-"}), D(2, 2), D(2, 2), D(2, 2)>>,
     Literal(<<"I", "M", "G">>) \o <<OneOf({"_", "-"}), D(4, 4), D(2, 2), D(2, 2)>>,
     Literal(<<"S", "c", "r", "e", "e", "n", "s", "h", "o", "t">>)
       \o <<OneOf({"_", "-"}), D(4, 4), OneOf({"_", "-"}), D(1, 2),
            OneOf({"_", "-"}), D(1, 2)>> >>

TIME_PATTERNS ==
  << <<D(1, 2), OneOf({":", "-"}), D(1, 2), OneOf({":", "-"}), D(1, 2)>>,
     <<D(2, 2), D(2, 2), D(2, 2)>> >>

\* datetime(year, month, day, hour, minute, second): the value, or ValueError
DaysInMonth(y, m) ==
  IF m \in {4, 6, 9, 11} THEN 30
  ELSE IF m # 2 THEN 31
  ELSE IF y % 4 = 0 /\ (y % 100 # 0 \/ y % 400 = 0) THEN 29 ELSE 28
NewDatetime(y, m, d, h, mi, s) ==
  IF /\ y \in 1..9999 /\ m \in 1..12 /\ d >= 1 /\ d <= DaysInMonth(y, m)
     /\ h \in 0..23 /\ mi \in 0..59 /\ s \in 0..59
  THEN [raised |-> "none", value |-> Date(y, m, d, h, mi, s, 0)]
  ELSE [raised |-> "ValueError", value |-> NoDate]

Midnight == [hour |-> 0, minute |-> 0, second |-> 0]

\* lines 325-331: the time of a match of a time pattern, when it is one
TimeOfMatch(m) ==
  [hour |-> ToInt(m.groups[1]), minute |-> ToInt(m.groups[2]),
   second |-> ToInt(m.groups[3])]
ValidTime(m) ==
  /\ m.ok
  /\ TimeOfMatch(m).hour \in 0..23
  /\ TimeOfMatch(m).minute \in 0..59
  /\ TimeOfMatch(m).second \in 0..59

\* _extract_time_from_filename, from the i-th time pattern on
RECURSIVE ExtractTimeFrom(_, _)
ExtractTimeFrom(filename, i) ==
  IF i > Len(TIME_PATTERNS) THEN Midnight
  ELSE TheOnly({IF ValidTime(m) THEN TimeOfMatch(m)
                ELSE ExtractTimeFrom(filename, i + 1) :
                  m \in {Search(TIME_PATTERNS[i], filename)}})
ExtractTimeFromFilename(filename) == ExtractTimeFrom(filename, 1)

NoDateTried == [outcome |-> "nomatch", date |-> NoDate, start |-> 0, end |-> 0]

\* lines 298-304: the range test, then datetime(...)
DateOfMatch(m, year, month, day, time) ==
  IF month \in 1..12 /\ day \in 1..31 /\ year \in 1900..3000
  THEN TheOnly({IF dt.raised = "none"
                THEN [outcome |-> "date", date |-> dt.value, start |-> m.start,
                      end |-> m.end]
                ELSE [NoDateTried EXCEPT !.outcome = dt.raised] :
                  dt \in {NewDatetime(year, month, day, time.hour, time.minute,
                                      time.second)}})
  ELSE [NoDateTried EXCEPT !.outcome = "rejected"]

\* lines 279-295: year, month, day and time of a match
ComponentsOfMatch(filename, m) ==
  LET g == m.groups
      yearFirst == Len(g[1]) = 4
  IN  [year |-> IF yearFirst THEN ToInt(g[1]) ELSE ToInt(g[3]),
       month |-> IF yearFirst THEN ToInt(g[2]) ELSE ToInt(g[1]),
       day |-> IF yearFirst THEN ToInt(g[3]) ELSE ToInt(g[2]),
       time |-> IF Len(g) >= 6
                THEN [hour |-> ToInt(g[4]), minute |-> ToInt(g[5]),
                      second |-> ToInt(g[6])]
                ELSE ExtractTimeFromFilename(filename)]

\* the body of the loop of _extract_from_filename for the i-th date pattern:
\* no match, a date, components out of the checked ranges, or the exception
TryDatePattern(filename, i) ==
  TheOnly({IF ~m.ok THEN NoDateTried
           ELSE TheOnly({DateOfMatch(m, c.year, c.month, c.day, c.time) :
                           c \in {ComponentsOfMatch(filename, m)}}) :
             m \in {Search(DATE_PATTERNS[i], filename)}})

\* no exception is caught: the handler is missing
Handled_None(exception) == FALSE

\* except (ValueError, IndexError)
Handled(exception) == exception \in {"ValueError", "IndexError"}

\* _extract_from_filename, from the i-th date pattern on
RECURSIVE ExtractFromFilenameFrom(_, _)
ExtractFromFilenameFrom(filename, i) ==
  IF i > Len(DATE_PATTERNS)
  THEN [raised |-> "none", date |-> NoDate, pattern |-> 0, start |-> 0, end |-> 0]
  ELSE TheOnly({
         CASE t.outcome = "date" ->
                [raised |-> "none", date |-> t.date, pattern |-> i,
                 start |-> t.start, end |-> t.end]
           [] t.outcome \in {"nomatch", "rejected"} ->
                ExtractFromFilenameFrom(filename, i + 1)
           [] OTHER ->
                IF Handled(t.outcome) THEN ExtractFromFilenameFrom(filename, i + 1)
                ELSE [raised |-> t.outcome, date |-> NoDate, pattern |-> i,
                      start |-> 0, end |-> 0] :
           t \in {TryDatePattern(filename, i)}})
ExtractFromFilename(filename) == ExtractFromFilenameFrom(filename, 1)

\* File stems handed to _extract_from_filename: a date with dashes followed
\* by nothing or by a time, and names of the other shapes.
Hms(lead, h, sep, mi, s) == lead \o Pad(h, 2) \o sep \o Pad(mi, 2) \o sep \o Pad(s, 2)
TimeTails ==
  {<<>>, Hms(<<"_">>, 10, <<"-">>, 11, 12), Hms(<<" ">>, 10, <<>>, 11, 12),
   Hms(<<"_">>, 25, <<"-">>, 61, 99)}
DashedNames ==
  {Pad(y, 4) \o <<"-">> \o Pad(m, 2) \o <<"-">> \o Pad(d, 2) \o t :
     y \in {2020, 2024, 1899}, m \in {7, 13, 2}, d \in {16, 30, 32}, t \in TimeTails}
Ymd(y, m, d) == Pad(y, 4) \o Pad(m, 2) \o Pad(d, 2)
OtherNames ==
  {Ymd(2024, 7, 16) \o Hms(<<"_">>, 18, <<>>, 22, 7),
   Ymd(2024, 7, 16) \o Hms(<<"_">>, 25, <<>>, 61, 99),
   Ymd(2024, 2, 30) \o Hms(<<"_">>, 18, <<>>, 22, 7),
   <<"I", "M", "G", "_">> \o Ymd(2020, 7, 16),
   <<"I", "M", "G", "_">> \o Ymd(2024, 13, 16),
   Pad(7, 2) \o <<"-">> \o Pad(16, 2) \o <<"-">> \o Pad(2024, 4),
   Pad(13, 2) \o <<"-">> \o Pad(40, 2) \o <<"-">> \o Pad(2024, 4),
   Pad(2024, 4) \o <<"-">> \o Pad(13, 2) \o <<"-">> \o Pad(1, 2)
     \o <<"_", "S", "c", "r", "e", "e", "n", "s", "h", "o", "t", "_">>
     \o Pad(2024, 4) \o <<"-">> \o Pad(1, 2) \o <<"-">> \o Pad(2, 2),
   <<"h", "o", "l", "i", "d", "a", "y">>}
FileStems == DashedNames \cup OtherNames

\* The prioritized date fields of the external tool's output.
EXIF_DATE_FIELDS ==
  <<"DateTimeOriginal", "EXIF:DateTimeOriginal", "CreateDate", "EXIF:CreateDate",
    "DateTime", "EXIF:DateTime", "QuickTime:CreateDate", "QuickTime:CreationDate",
    "CreationDate", "SubSecDateTimeOriginal", "SubSecCreateDate", "DateCreated",
    "ModifyDate", "FileCreateDate", "File:FileCreateDate", "FileModifyDate",
    "File:FileModifyDate">>

\* the fields of the list the tool's output can hold in the inputs
NumExifFields == 3
ReportedFields == {EXIF_DATE_FIELDS[i] : i \in 1..NumExifFields}

\* The value of one field of the JSON object: absent, the empty string, a
\* string no date format parses ('0000:00:00 00:00:00'), a number (2024), or
\* a string holding a date.
FieldValue(kind, date) == [kind |-> kind, date |-> date]
FieldValues ==
  {FieldValue(k, NoDate) : k \in {"absent", "empty", "junk", "number"}}
    \cup {FieldValue("date", d) :
            d \in {Date(2024, 7, 16, 18, 22, 7, 0), Date(2019, 1, 2, 3, 4, 5, 0)}}
\* the value of the key <field>SubSec: absent, digits ('007'), or other text
SubSecValues == {[kind |-> "absent", n |-> 0], [kind |-> "digits", n |-> 7],
                 [kind |-> "junk", n |-> 0]}

\* if date_str: (the truth value of a JSON value)
Truthy(v) == v.kind \notin {"absent", "empty"}

\* _parse_exif_date: the date (NoDate for None), or the exception of
\* date_str.strip() on a value that is no string
ParseExifDate(v) ==
  CASE v.kind = "number" -> [raised |-> "AttributeError", date |-> NoDate]
    [] v.kind = "date" -> [raised |-> "none", date |-> v.date]
    [] OTHER -> [raised |-> "none", date |-> NoDate]

\* lines 203-214: the sub-second digits of <field>SubSec put into the date
WithSubSec(date, subsec) ==
  IF subsec.kind = "digits"
  THEN [date EXCEPT !.microsecond = IF subsec.n < 1000 THEN subsec.n * 1000 ELSE subsec.n]
  ELSE date

NoExif == [date |-> NoDate, tag |-> "None"]

\* the loop over EXIF_DATE_FIELDS (lines 194-218) from the i-th field on;
\* an exception leaves the loop for the handler of line 224, which returns
\* None
RECURSIVE ExifFromField(_, _, _)
ExifFromField(file_data, subsec, i) ==
  IF i > Len(EXIF_DATE_FIELDS) THEN NoExif
  ELSE LET field == EXIF_DATE_FIELDS[i]
           present == field \in DOMAIN file_data /\ file_data[field].kind # "absent"
           parsed == ParseExifDate(file_data[field])
       IN  IF ~present \/ ~Truthy(file_data[field])
           THEN ExifFromField(file_data, subsec, i + 1)
           ELSE IF parsed.raised # "none" THEN NoExif
           ELSE IF parsed.date = NoDate THEN ExifFromField(file_data, subsec, i + 1)
           ELSE [date |-> WithSubSec(parsed.date,
                                     IF field \in DOMAIN subsec THEN subsec[field]
                                     ELSE [kind |-> "absent", n |-> 0]),
                 tag |-> field]
ExtractWithExiftool(file_data, subsec) == ExifFromField(file_data, subsec, 1)

InitFN ==
  /\ Idle("fn")
  /\ dry_run = FALSE
  /\ conflict_resolution = "timestamp_suffix"
  /\ unknown_strategy = "route_to_unknown"
  /\ date_format = FormatDefault
  /\ fingerprints = EmptyStore
  /\ copied_files = {}
  /\ disk = [p \in OutPaths |-> NoFile]
  /\ dirs = {}
  /\ storeFile = AbsentFile
  /\ backupFile = AbsentFile
  /\ hist = InitHist(disk, storeFile, backupFile)

FNUnchanged ==
  UNCHANGED <<dry_run, conflict_resolution, unknown_strategy, date_format,
              fingerprints, copied_files, summary, idx, disk, dirs, storeFile,
              backupFile, returned, hist>>

\* _sanitize_filename(name)
Sanitize ==
  /\ pc = "fn"
  /\ pc' = "called"
  /\ \E name \in ShortNames \cup LongNames :
       last' = [op |-> "sanitize", name |-> name, result |-> SanitizeFilename(name)]
  /\ FNUnchanged

\* _extract_from_filename(file_path), filename being the stem of the path
FromFilename ==
  /\ pc = "fn"
  /\ pc' = "called"
  /\ \E filename \in FileStems :
       \E r \in {ExtractFromFilename(filename)} :
           last' = [op |-> "fromname", filename |-> filename, raised |-> r.raised,
                    date |-> r.date, pattern |-> r.pattern, start |-> r.start,
                    end |-> r.end]
  /\ FNUnchanged

\* _extract_with_exiftool once the tool has returned the object file_data
FromExiftool ==
  /\ pc = "fn"
  /\ pc' = "called"
  /\ \E file_data \in [ReportedFields -> FieldValues], s \in SubSecValues :
       LET subsec == [f \in {EXIF_DATE_FIELDS[1]} |-> s]
           r == ExtractWithExiftool(file_data, subsec)
       IN  last' = [op |-> "exiftool", file_data |-> file_data, subsec |-> subsec,
                    date |-> r.date, tag |-> r.tag]
  /\ FNUnchanged

NextFN == Sanitize \/ FromFilename \/ FromExiftool

SpecFN == InitFN /\ [][NextFN]_vars

\* ------------------------------------------- claims, functions over text

Whitespace == {" ", "\t"}

\* C26 (as claimed): the name sanitization returns holds none of the
\* characters < > : " / \ | ? *, neither begins nor ends with a dot or
\* whitespace, has at most 200 characters and is not empty.
C26_SanitizedNameIsSafe ==
  last.op = "sanitize" =>
    LET r == last.result
    IN  /\ \A i \in 1..Len(r) : r[i] \notin UnsafeChars
        /\ r # <<>>
        /\ Len(r) <= 200
        /\ r[1] \notin {"."} \cup Whitespace
        /\ r[Len(r)] \notin {"."} \cup Whitespace

\* the time of day of a resolved date
TimeOf(date) == [hour |-> date.hour, minute |-> date.minute, second |-> date.second]

\* the times _extract_time_from_filename finds in the text before and in the
\* text after the span [start, end] of the file name
TimesOutside(filename, start, end) ==
  {ExtractTimeFromFilename(SubSeq(filename, 1, start - 1)),
   ExtractTimeFromFilename(SubSeq(filename, end + 1, Len(filename)))} \ {Midnight}

\* C24 (as claimed): for a file name matched by a date-only pattern, the time
\* of day is a time found outside the text matched as the date, and midnight
\* when there is none there; the digits of the date are never read as time.
C24_TimeFromOutsideTheDate ==
  (last.op = "fromname" /\ last.pattern \in {1, 2, 4, 5}) =>
    LET outside == TimesOutside(last.filename, last.start, last.end)
    IN  IF outside = {} THEN TimeOf(last.date) = Midnight
        ELSE TimeOf(last.date) \in outside

\* the i-th date pattern matches the name with a month in 1..12, a day valid
\* for the month, a year in 1900..3000 and, when the pattern has a time, a
\* valid hour, minute and second
InRange(filename, i) ==
  LET m == Search(DATE_PATTERNS[i], filename)
      g == [k \in 1..Len(m.groups) |-> ToInt(m.groups[k])]
      year == IF i = 2 THEN g[3] ELSE g[1]
      month == IF i = 2 THEN g[1] ELSE g[2]
      day == IF i = 2 THEN g[2] ELSE g[3]
  IN  /\ m.ok
      /\ year \in 1900..3000 /\ month \in 1..12
      /\ day >= 1 /\ day <= DaysInMonth(year, month)
      /\ (i = 3) => (g[4] \in 0..23 /\ g[5] \in 0..59 /\ g[6] \in 0..59)

\* C25: a date pattern that matches with a component out of range is passed
\* over for the next pattern of the list; the call returns the date of the
\* first pattern whose match is in range, returns no date when there is no
\* such pattern, and never raises.
C25_OutOfRangeFallsThrough ==
  last.op = "fromname" =>
    LET good == {i \in 1..Len(DATE_PATTERNS) : InRange(last.filename, i)}
    IN  /\ last.raised = "none"
        /\ (good = {}) => last.date = NoDate
        /\ (good # {}) =>
             /\ last.date # NoDate
             /\ last.pattern \in good
             /\ \A i \in good : last.pattern <= i

C25_Witness ==
  /\ last.op = "fromname"
  /\ Search(DATE_PATTERNS[1], last.filename).ok
  /\ ~InRange(last.filename, 1)
  /\ last.pattern = 5
  /\ last.date = Date(2024, 1, 2, 0, 0, 0, 0)

\* the fields of the list that are present with a non-empty value, as
\* positions in the list
NonEmptyFields(file_data) ==
  {i \in 1..Len(EXIF_DATE_FIELDS) :
     /\ EXIF_DATE_FIELDS[i] \in DOMAIN file_data
     /\ file_data[EXIF_DATE_FIELDS[i]].kind \notin {"absent", "empty"}}

\* C27 (as claimed): the date and the tag come from the first field of the
\* prioritized list that is present with a non-empty value, and no later
\* field is consulted: when that value holds a date, it is the result, tagged
\* with that field; when it holds none, the tool stage yields no date.
C27_FirstNonEmptyFieldWins ==
  (last.op = "exiftool" /\ NonEmptyFields(last.file_data) # {}) =>
    LET first == CHOOSE i \in NonEmptyFields(last.file_data) :
                   \A j \in NonEmptyFields(last.file_data) : i <= j
        v == last.file_data[EXIF_DATE_FIELDS[first]]
    IN  IF v.kind = "date"
        THEN /\ last.tag = EXIF_DATE_FIELDS[first]
             /\ [last.date EXCEPT !.microsecond = 0] = v.date
        ELSE last.date = NoDate /\ last.tag = "None"

====
